---- MODULE Spec2Model ----
(***************************************************************************)
(* UDPClient (udp_client.py): the ingestion thread (_receive_data,         *)
(* _process_data, _generate_waveforms), the lifecycle calls (start, stop,  *)
(* reconnect as the loop calls it) and the reader calls (get_latest_data,  *)
(* get_parameter_history, get_waveform_data, get_power_data,               *)
(* is_connected), with the bounded histories they share.                   *)
(*                                                                         *)
(* Floating-point values are fixed-point hundredths (230.5 is 23050); the  *)
(* clock counts 1/10000 s.  Steps of one thread are split where another    *)
(* thread can observe shared state: histories are read without data_lock   *)
(* by get_parameter_history, so every append is a step of its own.         *)
(* time_lock is held by _process_data for the single append to             *)
(* time_history and by get_waveform_data for its four copies.  The         *)
(* windowed queries are one step on histories at rest and one step per     *)
(* copy beside a running ingestion thread.                                 *)
(***************************************************************************)
EXTENDS Integers, Sequences, FiniteSets, TLC

\* ------------------------------------------------------------------ bounds
\* history_length, the capacity of every deque
H == 2
\* datagrams delivered to the socket over a whole run
MaxDatagrams == 3
\* Thread objects start() creates over a whole run
MaxThreads == 2
\* seconds the clock advances over a whole run
MaxTime == 2
\* seconds the clock advances while the handshake timer is exercised
MaxHelloTime == 12
\* sockets created over a whole run in which reconnect() is called
MaxSockets == 3
\* timestamps held by the histories a query is made on (history_length
\* being at least this)
MaxPoints == 3

\* --------------------------------------------------------- program constants
ExpectedValues == 21
MinCommas == 5
StatusMax == 3
HelloSilence == 5
\* `if error_count > 5`
ReconnectAfter == 5
DefaultFrequency == 5000
DefaultPowerFactor == 95

\* time.time() is counted in ten-thousandths of a second, so that the
\* rounding of timestamps to three decimals is not the identity
Second == 10000
\* a local variable that was never assigned
Unbound == -1
\* None, the default of n_points and of time_window
None == -1

Min2(a, b) == IF a < b THEN a ELSE b
Max2(a, b) == IF a > b THEN a ELSE b

\* ------------------------------------------------------------- field schema
\* latest_data keys in the order _process_data writes them (field i of the CSV)
FieldKey ==
  << "Grid_Voltage", "Grid_Current", "DCLink_Voltage", "ElectricVehicle_Voltage",
     "PhotoVoltaic_Voltage", "ElectricVehicle_Current", "PhotoVoltaic_Current",
     "PhotoVoltaic_Power", "ElectricVehicle_Power", "Battery_Power", "Grid_Power",
     "Grid_Reactive_Power", "Power_Factor", "Frequency", "THD",
     "S1_Status", "S2_Status", "S3_Status", "S4_Status", "Battery_SoC", "EV_SoC" >>

\* positions of the four status codes
StatusFields == 16..19

\* CSV field appended by the j-th data_history append of _process_data
HistField == << 1, 2, 3, 4, 5, 6, 7, 8, 9, 10, 11, 12, 13, 14, 15, 20, 21 >>

HistKeys == { FieldKey[HistField[j]] : j \in 1..Len(HistField) }

\* the six waveform deques in the order _generate_waveforms appends to them
WaveKey ==
  << "Grid_Voltage.phaseA", "Grid_Voltage.phaseB", "Grid_Voltage.phaseC",
     "Grid_Current.phaseA", "Grid_Current.phaseB", "Grid_Current.phaseC" >>

WaveKeys == { WaveKey[j] : j \in 1..Len(WaveKey) }

AllSeries == {"time"} \cup HistKeys \cup WaveKeys

\* latest_data as __init__ builds it: ten keys, all 0.0
InitLatestData == [ key \in { FieldKey[i] : i \in 1..10 } |-> 0 ]

\* ---------------------------------------------------------------- datagrams
\* A datagram is its bytes' decodability and, once decoded and stripped, the
\* comma-separated fields.  A field is numeric text ("num", value in hundredths),
\* text beginning with PARAM ("param") or other non-numeric text ("txt").
Num(v) == [kind |-> "num", v |-> v]
Txt == [kind |-> "txt", v |-> 0]
ParamTok == [kind |-> "param", v |-> 0]

NoData == [utf8 |-> TRUE, fields |-> << >>]

SampleAFields == [i \in 1..21 |-> IF i \in StatusFields THEN Num(270) ELSE Num(1000 + i)]
SampleBFields ==
  [i \in 1..21 |-> IF i = 16 THEN Num(-150)
                   ELSE IF i = 17 THEN Num(750)
                   ELSE IF i = 18 THEN Num(0)
                   ELSE IF i = 19 THEN Num(390)
                   ELSE Num(2000 + i)]

DSampleA == [utf8 |-> TRUE, fields |-> SampleAFields]
DSampleB == [utf8 |-> TRUE, fields |-> SampleBFields]
DParam == [utf8 |-> TRUE, fields |-> << ParamTok >>]
DParam21 == [utf8 |-> TRUE, fields |-> [SampleAFields EXCEPT ![1] = ParamTok]]
DReference == [utf8 |-> TRUE, fields |-> << Num(100), Num(200) >>]
DSixFields == [utf8 |-> TRUE, fields |-> [i \in 1..6 |-> Num(i)]]
DLong == [utf8 |-> TRUE, fields |-> [i \in 1..22 |-> Num(3000 + i)]]
DBadFloat == [utf8 |-> TRUE, fields |-> [SampleAFields EXCEPT ![3] = Txt]]
DBadStatus == [utf8 |-> TRUE, fields |-> [SampleBFields EXCEPT ![17] = Txt]]
DGarbled == [utf8 |-> FALSE, fields |-> << >>]

Datagrams ==
  { DSampleA, DSampleB, DParam, DParam21, DReference, DSixFields, DLong,
    DBadFloat, DBadStatus, DGarbled }

\* ------------------------------------------------------- pure parts of the code
\* data_str.count(',')
CommaCount(d) == Len(d.fields) - 1

ClassifyNoCountCheck(d) ==
  IF ~d.utf8 THEN "error"
  ELSE IF Len(d.fields) > 0 /\ d.fields[1].kind = "param" THEN "param"
  ELSE IF CommaCount(d) < MinCommas THEN "reference"
  ELSE "sample"

\* the checks of _process_data before the timestamp append, in their order
Classify(d) ==
  IF ~d.utf8 THEN "error"
  ELSE IF Len(d.fields) > 0 /\ d.fields[1].kind = "param" THEN "param"
  ELSE IF CommaCount(d) < MinCommas THEN "reference"
  ELSE IF Len(d.fields) # ExpectedValues THEN "count"
  ELSE "sample"

\* int(x) of a float in hundredths: truncation toward zero
IntOfFloat(v) == IF v >= 0 THEN v \div 100 ELSE -((-v) \div 100)

ClampNone(s) == s

\* max(0, min(s, 3))
Clamp(s) == Max2(0, Min2(s, StatusMax))

\* float(values[i]) for the measurements, int(float(values[i])) clamped for the
\* status codes; ok is FALSE when any conversion raises (ValueError, or
\* IndexError on a short list: both end the call)
ParseValues(fields) ==
  IF Len(fields) < ExpectedValues THEN [ok |-> FALSE, vals |-> << >>]
  ELSE [ok |-> \A i \in 1..ExpectedValues : fields[i].kind = "num",
        vals |-> [i \in 1..ExpectedValues |->
                    IF i \in StatusFields THEN Clamp(IntOfFloat(fields[i].v))
                    ELSE fields[i].v]]

DequeAppendUnbounded(q, x) == Append(q, x)

\* deque(maxlen=H).append(x)
DequeAppend(q, x) ==
  IF H = 0 THEN << >>
  ELSE IF Len(q) >= H THEN Append(Tail(q), x)
  ELSE Append(q, x)

\* max(-1.0, min(1.0, power_factor))
ClampPF(pf) == Max2(-100, Min2(100, pf))

\* The j-th value _generate_waveforms appends, as the term the code computes:
\* peak * sin(angle + shift [- arccos(pf)]) is kept symbolic in its arguments.
WaveVal(j, vd, id, f, pf, ts) ==
  [ fn |-> WaveKey[j],
    amp |-> IF j <= 3 THEN vd ELSE id,
    f |-> f,
    pf |-> IF j <= 3 THEN 0 ELSE ClampPF(pf),
    t |-> ts ]

\* dict.get(key, default)
DictGet(dict, key, default) == IF key \in DOMAIN dict THEN dict[key] ELSE default

\* -------------------------------------------------------------------- state
VARIABLES
  is_running,      \* self.is_running
  socket,          \* self.socket: 0 is None, else a socket id
  openSocks,       \* ids of the sockets that are open
  nSock,           \* sockets start() has handed to self.socket so far
  receive_thread,  \* self.receive_thread: 0 is None, else a thread id
  th,              \* per Thread object: position and locals of _receive_data
  data_lock,       \* holder of self.data_lock: 0 is free, else a thread id
  latest_data,     \* self.latest_data
  time_history,    \* self.time_history
  data_history,    \* self.data_history[key]
  waveform_data,   \* self.waveform_data[type][phase], keyed "type.phase"
  now,             \* time.time(), in 1/10000 s
  nRecv,           \* datagrams delivered so far
  caller,          \* the thread calling start()/stop(): position and last return
  rd,              \* the reader thread: the query it is in, its reads, its result
  log,             \* history: every value ever appended to each series, with the
                   \* number of the timestamp append of its datagram
  okIds,           \* history: timestamp appends made for datagrams that parsed
  accepted         \* history: the decoded field lists whose commit has begun

vars ==
  << is_running, socket, openSocks, nSock, receive_thread, th, data_lock, latest_data,
     time_history, data_history, waveform_data, now, nRecv, caller, rd,
     log, okIds, accepted >>

store == << latest_data, time_history, data_history, waveform_data >>

Threads == 1..MaxThreads

NoThread ==
  [ pc |-> "none", start_time |-> 0, packet_count |-> 0, data |-> NoData,
    timestamp |-> 0, vals |-> << >>, k |-> 0, frequency |-> 0,
    power_factor |-> 0, report |-> "none", tid |-> 0,
    error_count |-> Unbound,
    \* history: _send_hello_packet calls made, the time of the last one, the
    \* time _receive_data was entered, the time of the last datagram, the
    \* exceptions recvfrom raised that were not timeouts
    hellos |-> 0, last_hello |-> 0, loop_start |-> 0, last_data |-> 0, errs |-> 0 ]

\* Thread.is_alive()
IsAlive(t) == th[t].pc \notin {"none", "unstarted", "returned", "crashed"}

NumThreads == Cardinality({ t \in Threads : th[t].pc # "none" })

NoReturn == [op |-> "none", val |-> FALSE, joined |-> FALSE, raised |-> FALSE]

RdIdle ==
  [ pc |-> "idle", op |-> "none", p |-> "none", snapshot |-> << >>, time |-> << >>,
    vals |-> << >>, nT |-> 0, nD |-> 0,
    \* the arguments n_points and time_window of a query and the series it returned
    n |-> None, w |-> None, series |-> << >> ]

Init ==
  /\ is_running = FALSE
  /\ socket = 0
  /\ openSocks = {}
  /\ nSock = 0
  /\ receive_thread = 0
  /\ th = [t \in Threads |-> NoThread]
  /\ data_lock = 0
  /\ latest_data = InitLatestData
  /\ time_history = << >>
  /\ data_history = [key \in HistKeys |-> << >>]
  /\ waveform_data = [key \in WaveKeys |-> << >>]
  /\ now = 0
  /\ nRecv = 0
  /\ caller = [pc |-> "idle", ret |-> NoReturn]
  /\ rd = RdIdle
  /\ log = [s \in AllSeries |-> << >>]
  /\ okIds = {}
  /\ accepted = {}

\* ---------------------------------------------------------------- lifecycle
storeVars == << latest_data, time_history, data_history, waveform_data, log, okIds, accepted >>
readerVars == << rd >>

Return(op, val) == [op |-> op, val |-> val, joined |-> FALSE, raised |-> FALSE]

\* start(), is_running already set: "already running", return True
StartAlreadyRunning ==
  /\ caller.pc = "idle"
  /\ is_running
  /\ caller' = [caller EXCEPT !.ret = Return("start", TRUE)]
  /\ UNCHANGED << is_running, socket, openSocks, nSock, receive_thread, th, data_lock,
                  now, nRecv, storeVars, readerVars >>

\* start(), every step succeeds: socket created and bound, flag set, thread started
StartOk ==
  /\ caller.pc = "idle"
  /\ ~is_running
  /\ NumThreads < MaxThreads
  /\ LET t == NumThreads + 1
         s == nSock + 1
     IN /\ socket' = s
        /\ nSock' = s
        /\ openSocks' = openSocks \cup {s}
        /\ is_running' = TRUE
        /\ receive_thread' = t
        /\ th' = [th EXCEPT ![t] = [NoThread EXCEPT !.pc = "start"]]
  /\ caller' = [caller EXCEPT !.ret = Return("start", TRUE)]
  /\ UNCHANGED << data_lock, now, nRecv, storeVars, readerVars >>

\* start(), an exception at `step`: "socket" is socket.socket() raising,
\* "configure" is setsockopt/settimeout/bind/getsockname raising, "thread" is
\* Thread.start() raising.  The handler closes and clears self.socket and
\* returns False; it does not touch is_running.
StartFails(step) ==
  /\ caller.pc = "idle"
  /\ ~is_running
  /\ \/ /\ step = "socket"
        /\ openSocks' = openSocks \ {socket}
        /\ UNCHANGED << is_running, receive_thread, th >>
     \/ /\ step = "configure"
        /\ UNCHANGED << openSocks, is_running, receive_thread, th >>
     \/ /\ step = "thread"
        /\ NumThreads < MaxThreads
        /\ is_running' = TRUE
        /\ receive_thread' = NumThreads + 1
        /\ th' = [th EXCEPT ![NumThreads + 1] = [NoThread EXCEPT !.pc = "unstarted"]]
        /\ UNCHANGED openSocks
  /\ socket' = 0
  /\ caller' = [caller EXCEPT !.ret = Return("start", FALSE)]
  /\ UNCHANGED << nSock, data_lock, now, nRecv, storeVars, readerVars >>

Start ==
  \/ StartAlreadyRunning
  \/ StartOk
  \/ \E step \in {"socket", "configure", "thread"} : StartFails(step)

\* stop(), up to the join: the flag is cleared
StopBegin ==
  /\ caller.pc = "idle"
  /\ is_running' = FALSE
  /\ caller' = [pc |-> "stop_join", ret |-> NoReturn]
  /\ UNCHANGED << socket, openSocks, nSock, receive_thread, th, data_lock, now, nRecv,
                  storeVars, readerVars >>

StopFinishKeepsSocketOnError(raises) ==
  /\ caller.pc = "stop_join"
  /\ raises => socket # 0
  /\ IF socket # 0
       THEN IF raises
              THEN /\ openSocks' \in {openSocks, openSocks \ {socket}}
                   /\ socket' = socket
              ELSE /\ openSocks' = openSocks \ {socket}
                   /\ socket' = 0
       ELSE UNCHANGED << socket, openSocks >>
  /\ caller' = [pc |-> "idle",
                ret |-> [op |-> "stop", val |-> TRUE,
                         joined |-> ~(receive_thread # 0 /\ IsAlive(receive_thread)),
                         raised |-> raises]]
  /\ UNCHANGED << is_running, nSock, receive_thread, th, data_lock, now, nRecv,
                  storeVars, readerVars >>

\* stop(), from the join on.  join(timeout=2.0) returns when the thread has
\* ended or when the wait runs out, so the step is enabled in both cases; then
\* the socket, if any, is closed (`raises`: close() raised, caught) and cleared.
StopFinish(raises) ==
  /\ caller.pc = "stop_join"
  /\ raises => socket # 0
  /\ IF socket # 0
       THEN IF raises
              THEN openSocks' \in {openSocks, openSocks \ {socket}}
              ELSE openSocks' = openSocks \ {socket}
       ELSE UNCHANGED openSocks
  /\ socket' = 0
  /\ caller' = [pc |-> "idle",
                ret |-> [op |-> "stop", val |-> TRUE,
                         joined |-> ~(receive_thread # 0 /\ IsAlive(receive_thread)),
                         raised |-> raises]]
  /\ UNCHANGED << is_running, nSock, receive_thread, th, data_lock, now, nRecv,
                  storeVars, readerVars >>

Stop == StopBegin \/ \E raises \in BOOLEAN : StopFinish(raises)

\* --------------------------------------------------------- ingestion thread
lifeVars == << is_running, socket, openSocks, nSock, receive_thread, caller >>

SocketUsable == socket # 0 /\ socket \in openSocks

\* _receive_data up to the loop: start_time, packet_count, _send_hello_packet
\* (a failed send is caught and reported)
ReceiveDataBegin(t) ==
  /\ th[t].pc = "start"
  /\ th' = [th EXCEPT ![t] = [@ EXCEPT !.pc = "loop", !.start_time = now,
                                        !.packet_count = 0,
                                        !.hellos = 1, !.last_hello = now,
                                        !.loop_start = now]]
  /\ UNCHANGED << lifeVars, data_lock, now, nRecv, storeVars, readerVars >>

\* `while True`: the loop does not look at is_running
LoopCheckForever(t) ==
  /\ th[t].pc = "loop"
  /\ th' = [th EXCEPT ![t].pc = "recv"]
  /\ UNCHANGED << lifeVars, data_lock, now, nRecv, storeVars, readerVars >>

\* while self.is_running
LoopCheck(t) ==
  /\ th[t].pc = "loop"
  /\ th' = [th EXCEPT ![t].pc = IF is_running THEN "recv" ELSE "returned"]
  /\ UNCHANGED << lifeVars, data_lock, now, nRecv, storeVars, readerVars >>

\* recvfrom returns a datagram: packet_count, current_time, then _process_data
RecvDatagram(t, d) ==
  /\ th[t].pc = "recv"
  /\ SocketUsable
  /\ nRecv < MaxDatagrams
  /\ nRecv' = nRecv + 1
  /\ th' = [th EXCEPT ![t] = [@ EXCEPT !.pc = "process", !.data = d,
                                        !.packet_count = @ + 1,
                                        !.timestamp = now - th[t].start_time,
                                        !.last_data = now]]
  /\ UNCHANGED << lifeVars, data_lock, now, storeVars, readerVars >>

\* recvfrom raises socket.timeout: the hello is resent, and start_time reset,
\* when no packet was ever counted and more than 5 s passed since start_time
RecvTimeout(t) ==
  /\ th[t].pc = "recv"
  /\ SocketUsable
  /\ th' = [th EXCEPT ![t] =
              IF th[t].packet_count = 0 /\ now - th[t].start_time > HelloSilence * Second
                THEN [@ EXCEPT !.pc = "loop", !.start_time = now,
                               !.hellos = @ + 1, !.last_hello = now]
                ELSE [@ EXCEPT !.pc = "loop"]]
  /\ UNCHANGED << lifeVars, data_lock, now, nRecv, storeVars, readerVars >>

\* reconnect(), its effect on the socket: the old socket is closed and cleared;
\* "socket" is socket.socket() raising (self.socket stays None), "configure" is
\* setsockopt/settimeout/bind/getsockname raising (self.socket stays the new,
\* open socket), "ok" is every step succeeding
ReconnectOutcomes == {"ok", "socket", "configure"}

ReconnectSocket(outcome) ==
  IF outcome = "socket"
    THEN /\ socket' = 0
         /\ openSocks' = openSocks \ {socket}
         /\ UNCHANGED nSock
    ELSE /\ socket' = nSock + 1
         /\ nSock' = nSock + 1
         /\ openSocks' = (openSocks \ {socket}) \cup {nSock + 1}

\* reconnect() called by the application; the hello it sends after a bind that
\* succeeded changes nothing here
Reconnect ==
  /\ caller.pc = "idle"
  /\ \E outcome \in ReconnectOutcomes :
       /\ outcome # "socket" => nSock < MaxSockets
       /\ ReconnectSocket(outcome)
       /\ caller' = [caller EXCEPT !.ret = Return("reconnect", outcome = "ok")]
  /\ UNCHANGED << is_running, receive_thread, th, data_lock, now, nRecv,
                  storeVars, readerVars >>

\* recvfrom raises another exception (self.socket is None or closed, or an OS
\* error): the handler's `error_count += 1` reads a local that was never bound,
\* UnboundLocalError leaves _receive_data and the thread ends.  With the local
\* bound, the handler counts, calls reconnect() past ReconnectAfter and goes on.
RecvError(t) ==
  /\ th[t].pc = "recv"
  /\ IF th[t].error_count = Unbound
       THEN /\ th' = [th EXCEPT ![t] = [@ EXCEPT !.pc = "crashed", !.errs = @ + 1]]
            /\ UNCHANGED << socket, openSocks, nSock >>
       ELSE IF th[t].error_count + 1 > ReconnectAfter
         THEN /\ \E outcome \in ReconnectOutcomes : ReconnectSocket(outcome)
              /\ th' = [th EXCEPT ![t] = [@ EXCEPT !.pc = "loop", !.error_count = 0,
                                                    !.errs = @ + 1]]
         ELSE /\ th' = [th EXCEPT ![t] = [@ EXCEPT !.pc = "loop", !.error_count = @ + 1,
                                                    !.errs = @ + 1]]
              /\ UNCHANGED << socket, openSocks, nSock >>
  /\ UNCHANGED << is_running, receive_thread, caller, data_lock, now, nRecv,
                  storeVars, readerVars >>

\* one second passes; the clock is read only at ReceiveDataBegin and around
\* recvfrom, so time is let pass while some thread is in recvfrom
Elapse(limit) ==
  /\ now < limit * Second
  /\ \E t \in Threads : th[t].pc = "recv"
  /\ now' = now + Second
  /\ UNCHANGED << lifeVars, th, data_lock, nRecv, storeVars, readerVars >>

Tick == Elapse(MaxTime)

LogAppend(s, v, id) == [log EXCEPT ![s] = Append(@, [v |-> v, id |-> id])]

EndCall(t, report) ==
  [th[t] EXCEPT !.pc = "loop", !.report = report, !.data = NoData, !.vals = << >>,
                !.k = 0, !.tid = 0, !.frequency = 0, !.power_factor = 0,
                !.timestamp = 0]

\* time_lock is held by a get_waveform_data that is taking its copies
TimeLockHeld == rd.pc = "copy" /\ rd.op = "waveform"

\* _process_data from its entry to the data_lock: decode, the three checks,
\* the append to time_history (under time_lock), the parse of the 21 values
ProcessData(t) ==
  /\ th[t].pc = "process"
  /\ Classify(th[t].data) = "sample" => ~TimeLockHeld
  /\ LET d == th[t].data
         c == Classify(d)
         p == ParseValues(d.fields)
         id == Len(log["time"]) + 1
     IN IF c # "sample"
          THEN /\ th' = [th EXCEPT ![t] = EndCall(t, c)]
               /\ UNCHANGED << time_history, log, okIds >>
          ELSE /\ time_history' = DequeAppend(time_history, th[t].timestamp)
               /\ log' = LogAppend("time", th[t].timestamp, id)
               /\ IF p.ok
                    THEN /\ th' = [th EXCEPT ![t] = [@ EXCEPT !.pc = "commit", !.k = 1,
                                                           !.vals = p.vals, !.tid = id,
                                                           !.report = "none"]]
                         /\ okIds' = okIds \cup {id}
                    ELSE /\ th' = [th EXCEPT ![t] =
                                     EndCall(t, IF Len(d.fields) < ExpectedValues
                                                  THEN "error" ELSE "parse")]
                         /\ UNCHANGED okIds
  /\ UNCHANGED << lifeVars, data_lock, now, nRecv, latest_data, data_history,
                  waveform_data, accepted, readerVars >>

NumSnapshotWrites == Len(FieldKey)
NumCommitSteps == Len(FieldKey) + Len(HistField)

\* _process_data inside `with self.data_lock`: step k <= 21 writes
\* latest_data[FieldKey[k]], step 21 + j makes the j-th data_history append;
\* the lock is taken with the first step and released with the last
CommitStep(t) ==
  /\ th[t].pc = "commit"
  /\ LET k == th[t].k
         v == th[t].vals
     IN /\ IF k = 1 THEN data_lock = 0 ELSE data_lock = t
        /\ accepted' = IF k = 1 THEN accepted \cup {v} ELSE accepted
        /\ IF k <= NumSnapshotWrites
             THEN /\ latest_data' = (FieldKey[k] :> v[k]) @@ latest_data
                  /\ UNCHANGED << data_history, log >>
             ELSE LET f == HistField[k - NumSnapshotWrites]
                  IN /\ data_history' = [data_history EXCEPT
                                           ![FieldKey[f]] = DequeAppend(@, v[f])]
                     /\ log' = LogAppend(FieldKey[f], v[f], th[t].tid)
                     /\ UNCHANGED latest_data
        /\ IF k = NumCommitSteps
             THEN /\ data_lock' = 0
                  /\ th' = [th EXCEPT ![t] = [@ EXCEPT !.pc = "wave_read", !.k = 0]]
             ELSE /\ data_lock' = t
                  /\ th' = [th EXCEPT ![t].k = k + 1]
  /\ UNCHANGED << lifeVars, now, nRecv, time_history, waveform_data, okIds, readerVars >>

\* _generate_waveforms, first `with self.data_lock`: frequency and power factor
WaveRead(t) ==
  /\ th[t].pc = "wave_read"
  /\ data_lock = 0
  /\ th' = [th EXCEPT ![t] =
              [@ EXCEPT !.pc = "wave_append", !.k = 1,
                        !.frequency = DictGet(latest_data, "Frequency", DefaultFrequency),
                        !.power_factor =
                          DictGet(latest_data, "Power_Factor", DefaultPowerFactor)]]
  /\ UNCHANGED << lifeVars, data_lock, now, nRecv, storeVars, readerVars >>

\* _generate_waveforms, second `with self.data_lock`: the k-th of six appends
WaveAppend(t) ==
  /\ th[t].pc = "wave_append"
  /\ LET k == th[t].k
         v == th[t].vals
         w == WaveVal(k, v[1], v[2], th[t].frequency, th[t].power_factor,
                      th[t].timestamp)
     IN /\ IF k = 1 THEN data_lock = 0 ELSE data_lock = t
        /\ waveform_data' = [waveform_data EXCEPT ![WaveKey[k]] = DequeAppend(@, w)]
        /\ log' = LogAppend(WaveKey[k], w, th[t].tid)
        /\ IF k = Len(WaveKey)
             THEN /\ data_lock' = 0
                  /\ th' = [th EXCEPT ![t] = EndCall(t, "none")]
             ELSE /\ data_lock' = t
                  /\ th' = [th EXCEPT ![t].k = k + 1]
  /\ UNCHANGED << lifeVars, now, nRecv, latest_data, time_history, data_history,
                  okIds, accepted, readerVars >>

\* _receive_data in thread t up to the lock-protected commit, the network
\* delivering datagrams of D
ReceiveLoop(t, D) ==
  \/ ReceiveDataBegin(t)
  \/ LoopCheck(t)
  \/ \E d \in D : RecvDatagram(t, d)
  \/ RecvTimeout(t)
  \/ RecvError(t)
  \/ ProcessData(t)

\* the lock-protected rest of _process_data and _generate_waveforms
CommitData(t) ==
  \/ CommitStep(t)
  \/ WaveRead(t)
  \/ WaveAppend(t)

ReceiveData(t, D) == ReceiveLoop(t, D) \/ CommitData(t)

\* ------------------------------------------------------------------ readers
ingestVars == << th, data_lock, now, nRecv, storeVars >>

GetLatestDataNoLock ==
  /\ rd.pc = "idle"
  /\ rd' = [RdIdle EXCEPT !.op = "latest", !.snapshot = latest_data]
  /\ UNCHANGED << lifeVars, ingestVars >>

\* get_latest_data: the copy is taken with data_lock held
GetLatestData ==
  /\ rd.pc = "idle"
  /\ data_lock = 0
  /\ rd' = [RdIdle EXCEPT !.op = "latest", !.snapshot = latest_data]
  /\ UNCHANGED << lifeVars, ingestVars >>

QueryParams == {"Grid_Voltage", "EV_SoC"}

\* get_parameter_history(p), neither n_points nor time_window: the copy of
\* time_history; no lock is taken
GetParameterHistoryTime(p) ==
  /\ rd.pc = "idle"
  /\ rd' = [RdIdle EXCEPT !.pc = "ph_data", !.op = "history", !.p = p,
                          !.time = time_history, !.nT = Len(log["time"])]
  /\ UNCHANGED << lifeVars, ingestVars >>

\* get_parameter_history(p): the copy of data_history[p], then the return
\* (two empty arrays when the time copy is empty)
GetParameterHistoryData ==
  /\ rd.pc = "ph_data"
  /\ rd' = [rd EXCEPT !.pc = "idle",
                      !.vals = IF Len(rd.time) = 0 THEN << >> ELSE data_history[rd.p],
                      !.nD = Len(log[rd.p])]
  /\ UNCHANGED << lifeVars, ingestVars >>

GetParameterHistory ==
  \/ \E p \in QueryParams : GetParameterHistoryTime(p)
  \/ GetParameterHistoryData

\* ------------------------------------------------------------------ queries
\* np.round(x, 3) of a time in 1/10000 s: the nearest thousandth, a tie going
\* to the even thousandth
Round3(x) ==
  LET q == x \div 10
      r == x % 10
  IN IF r < 5 THEN 10 * q
     ELSE IF r > 5 THEN 10 * (q + 1)
     ELSE IF q % 2 = 0 THEN 10 * q ELSE 10 * (q + 1)

\* np.where(time >= cutoff)[0], as positions counted from 1, ascending
Where(time, cutoff) ==
  SelectSeq([i \in 1..Len(time) |-> i], LAMBDA i : time[i] >= cutoff)

\* arr[indices]
Take(arr, indices) == [i \in 1..Len(indices) |-> arr[indices[i]]]

\* arr[-n:] for n >= 0: the whole of arr when n is 0 (-0 is 0) or exceeds len(arr)
SliceLast(arr, n) ==
  IF n = 0 \/ n >= Len(arr) THEN arr ELSE SubSeq(arr, Len(arr) - n + 1, Len(arr))

\* a query's return value: the time array and the tuple of value arrays
Arrays(time, series) == [time |-> time, series |-> series]

\* filter_by_time_window(time, *series, time_window = w)
filter_by_time_window(time, series, w) ==
  IF Len(time) = 0 THEN Arrays(time, series)
  ELSE
    LET cutoff_time == time[Len(time)] - w
        indices == Where(time, cutoff_time)
    IN IF Len(indices) > 0 /\ \E j \in 1..Len(series) : indices[Len(indices)] > Len(series[j])
         THEN Arrays(time, series)
       ELSE IF Len(indices) = 0
         THEN IF \E j \in 1..Len(series) : Len(series[j]) = 0
                THEN Arrays(time, series)
                ELSE Arrays(<< time[Len(time)] >>,
                            [j \in 1..Len(series) |-> << series[j][Len(series[j])] >>])
       ELSE Arrays([i \in 1..Len(indices) |-> Round3(time[indices[i]])],
                   [j \in 1..Len(series) |-> Take(series[j], indices)])

\* the shared tail of the three queries: time_window, else n_points, else all
WindowOrCount(time, series, n, w) ==
  IF w # None THEN filter_by_time_window(time, series, w)
  ELSE IF n # None
    THEN Arrays(SliceLast(time, Min2(n, Len(time))),
                [j \in 1..Len(series) |-> SliceLast(series[j], Min2(n, Len(time)))])
  ELSE Arrays(time, series)

\* `if time_window is not None and (len(time_data) < 2 or
\*      (time_data[-1] - time_data[0]) < time_window)`
NotEnoughData(time, w) ==
  w # None /\ (Len(time) < 2 \/ time[Len(time)] - time[1] < w)

WaveTypes == {"Grid_Voltage", "Grid_Current"}
Phases == << "phaseA", "phaseB", "phaseC" >>
PowerKeys == << "Grid_Power", "PhotoVoltaic_Power", "ElectricVehicle_Power", "Battery_Power" >>

\* self.waveform_data[waveform_type][Phases[ph]]
WaveSeries(type, ph) ==
  waveform_data[WaveKey[(IF type = "Grid_Voltage" THEN 0 ELSE 3) + ph]]

\* get_waveform_data from its copies time_data and series to its return
WaveformOfCopies(time_data, series, n, w) ==
  IF Len(time_data) = 0 THEN Arrays(<< >>, << << >>, << >>, << >> >>)
  ELSE IF NotEnoughData(time_data, w) THEN Arrays(time_data, series)
  ELSE WindowOrCount(time_data, series, n, w)

\* get_waveform_data(type, n, w); the copies are taken under time_lock
get_waveform_data(type, n, w) ==
  IF type \notin WaveTypes THEN Arrays(<< >>, << << >>, << >>, << >> >>)
  ELSE WaveformOfCopies(time_history, [ph \in 1..Len(Phases) |-> WaveSeries(type, ph)], n, w)

\* get_power_data returning five empty arrays for an empty time_history
GetPowerDataEmptyArrays(n, w) ==
  LET time_data == time_history
      series == [j \in 1..Len(PowerKeys) |-> data_history[PowerKeys[j]]]
  IN IF Len(time_data) = 0 THEN Arrays(<< >>, << << >>, << >>, << >>, << >> >>)
     ELSE IF NotEnoughData(time_data, w) THEN Arrays(time_data, series)
     ELSE WindowOrCount(time_data, series, n, w)

\* get_power_data from its copies time_data and series to its return
PowerOfCopies(time_data, series, n, w) ==
  IF Len(time_data) = 0 THEN Arrays(<< 0 >>, << << 0 >>, << 0 >>, << 0 >>, << 0 >> >>)
  ELSE IF NotEnoughData(time_data, w) THEN Arrays(time_data, series)
  ELSE WindowOrCount(time_data, series, n, w)

\* get_power_data(n, w); no lock is taken
get_power_data(n, w) ==
  PowerOfCopies(time_history, [j \in 1..Len(PowerKeys) |-> data_history[PowerKeys[j]]], n, w)

\* get_parameter_history from its copies time_data and series to its return
ParameterOfCopies(time_data, series, n, w) ==
  IF Len(time_data) = 0 THEN Arrays(<< >>, << << >> >>)
  ELSE WindowOrCount(time_data, series, n, w)

\* get_parameter_history(parameter, n, w); no lock is taken, and there is no
\* test for a history shorter than the window
get_parameter_history(parameter, n, w) ==
  IF parameter \notin HistKeys THEN Arrays(<< >>, << << >> >>)
  ELSE ParameterOfCopies(time_history, << data_history[parameter] >>, n, w)

\* values of n_points and of time_window (in 1/10000 s) the queries are given,
\* and the pairs of them: either alone, neither, and both
QueryCounts == 0..(MaxPoints + 1)
QueryWindows == {5004, 10000}
QueryArgs ==
  {<< n, None >> : n \in QueryCounts \cup {None}}
    \cup {<< None, w >> : w \in QueryWindows}
    \cup {<< n, w >> : n \in {0, 1}, w \in {10000}}

\* a query returns r to its caller
Answer(op, p, n, w, r) ==
  /\ rd.pc = "idle"
  /\ rd' = [RdIdle EXCEPT !.op = op, !.p = p, !.n = n, !.w = w,
                          !.time = r.time, !.series = r.series]
  /\ UNCHANGED << lifeVars, ingestVars >>

GetWaveformData ==
  \E type \in WaveTypes, a \in QueryArgs :
    Answer("waveform", type, a[1], a[2], get_waveform_data(type, a[1], a[2]))

GetPowerData ==
  \E a \in QueryArgs :
    Answer("power", "none", a[1], a[2], get_power_data(a[1], a[2]))

GetParameterHistoryOf ==
  \E p \in QueryParams, a \in QueryArgs :
    Answer("parameter", p, a[1], a[2], get_parameter_history(p, a[1], a[2]))

\* the deques a query copies after time_history, in the order of its copies
Copied(op, p) ==
  IF op = "parameter" THEN << data_history[p] >>
  ELSE IF op = "waveform" THEN [ph \in 1..Len(Phases) |-> WaveSeries(p, ph)]
  ELSE [j \in 1..Len(PowerKeys) |-> data_history[PowerKeys[j]]]

OfCopies(op, time_data, series, n, w) ==
  IF op = "parameter" THEN ParameterOfCopies(time_data, series, n, w)
  ELSE IF op = "waveform" THEN WaveformOfCopies(time_data, series, n, w)
  ELSE PowerOfCopies(time_data, series, n, w)

\* a query begins: np.array(list(self.time_history)); get_waveform_data has
\* taken time_lock, the other two take no lock
CopyTime(op, p, n, w) ==
  /\ rd.pc = "idle"
  /\ rd' = [RdIdle EXCEPT !.pc = "copy", !.op = op, !.p = p, !.n = n, !.w = w,
                          !.time = time_history]
  /\ UNCHANGED << lifeVars, ingestVars >>

\* the query copies its next deque; after the last copy (time_lock released)
\* it filters its copies and returns
CopyNext ==
  /\ rd.pc = "copy"
  /\ LET from == Copied(rd.op, rd.p)
         got == Append(rd.series, from[Len(rd.series) + 1])
         r == OfCopies(rd.op, rd.time, got, rd.n, rd.w)
     IN rd' = IF Len(got) < Len(from)
                THEN [rd EXCEPT !.series = got]
                ELSE [rd EXCEPT !.pc = "idle", !.time = r.time, !.series = r.series]
  /\ UNCHANGED << lifeVars, ingestVars >>

\* values of n_points and time_window given to queries that run beside ingestion
CopyArgs == {<< None, None >>, << 1, None >>, << None, 10000 >>}

\* get_waveform_data, get_power_data and get_parameter_history, copy by copy
GetWaveformDataCopies ==
  \/ \E type \in WaveTypes, a \in CopyArgs : CopyTime("waveform", type, a[1], a[2])
  \/ rd.op = "waveform" /\ CopyNext

GetPowerDataCopies ==
  \/ \E a \in CopyArgs : CopyTime("power", "none", a[1], a[2])
  \/ rd.op = "power" /\ CopyNext

GetParameterHistoryCopies ==
  \/ \E p \in QueryParams, a \in CopyArgs : CopyTime("parameter", p, a[1], a[2])
  \/ rd.op = "parameter" /\ CopyNext

\* is_connected()
is_connected == is_running /\ Len(time_history) > 0

\* ----------------------------------------------------------- specifications
\* datagrams delivered while the lifecycle is exercised
LifeDatagrams == {DParam}

\* datagrams delivered while readers run
ReadDatagrams == {DSampleA, DSampleB, DBadFloat, DParam}

\* the whole client: lifecycle calls, ingestion threads, readers
Next ==
  \/ Start
  \/ Stop
  \/ \E t \in Threads : ReceiveData(t, Datagrams)
  \/ Tick
  \/ GetLatestData
  \/ GetParameterHistory
  \/ GetWaveformData
  \/ GetPowerData
  \/ GetParameterHistoryOf
  \/ GetWaveformDataCopies
  \/ GetPowerDataCopies
  \/ GetParameterHistoryCopies
  \/ Reconnect

Spec == Init /\ [][Next]_vars

\* one start(), then ingestion of every kind of datagram
NextIngest ==
  \/ StartOk
  \/ \E t \in Threads : ReceiveData(t, Datagrams)
  \/ Tick

SpecIngest == Init /\ [][NextIngest]_vars

\* one start(), ingestion, and a reader thread querying concurrently (the
\* clock stands still: samples are told apart by the number of their append)
NextRead ==
  \/ StartOk
  \/ \E t \in Threads : ReceiveData(t, ReadDatagrams)
  \/ GetLatestData
  \/ GetParameterHistory

SpecRead == Init /\ [][NextRead]_vars

\* any sequence of start() and stop() calls over running ingestion threads
\* that are sent PARAM messages (the clock stands still)
NextLife ==
  \/ Start
  \/ Stop
  \/ \E t \in Threads : ReceiveLoop(t, LifeDatagrams)

SpecLife == Init /\ [][NextLife]_vars

\* datagrams delivered while stop() is exercised
StopDatagrams == {DSampleA, DParam}

\* the steps of thread t that wait for nothing outside the program: the code
\* between two receives, and the return of recvfrom itself, which the 1 s
\* timeout of the socket bounds while the socket is usable and which is an
\* immediate exception once self.socket is None or closed
ThreadProgress(t) ==
  \/ ReceiveDataBegin(t)
  \/ LoopCheck(t)
  \/ RecvTimeout(t)
  \/ (~SocketUsable /\ RecvError(t))
  \/ ProcessData(t)
  \/ CommitData(t)

\* start() called once
StartOnce == StartOk /\ NumThreads = 0

\* one start(), then any stop() calls, over an ingestion thread that is sent
\* Samples and PARAM messages and that the scheduler keeps running; callers
\* are under no obligation to make or finish a call
NextStop ==
  \/ StartOnce
  \/ Stop
  \/ \E t \in Threads : ReceiveData(t, StopDatagrams)

SpecStop ==
  /\ Init
  /\ [][NextStop]_vars
  /\ \A t \in Threads : WF_vars(ThreadProgress(t))

\* datagrams delivered while the handshake timer is exercised
HelloDatagrams == {DSampleA, DParam}

\* time passes, up to MaxHelloTime seconds
HelloTick == Elapse(MaxHelloTime)

\* one start(), then an ingestion thread that is sent Samples and PARAM
\* messages at any time of a clock that runs past the 5 s of silence
NextHello ==
  \/ StartOnce
  \/ \E t \in Threads : ReceiveData(t, HelloDatagrams)
  \/ HelloTick

SpecHello == Init /\ [][NextHello]_vars

\* timestamps (in 1/10000 s) of the histories queries are made on
QueryTimes == {0, 10000, 15004}

\* the i-th value of a history and of a waveform deque
HistValue(key, i) == 100 * i + (CHOOSE j \in 1..Len(FieldKey) : FieldKey[j] = key)
WaveValue(j, i) ==
  WaveVal(j, 100 * i + 1, 100 * i + 2, DefaultFrequency, DefaultPowerFactor, i)

\* The client at rest with its histories filled: any timestamps (each stop()
\* and start() begins the elapsed time anew, so the order is any order), and
\* the value histories as long as time_history or, after a datagram that
\* failed to parse, one shorter.  History variables are not kept.
InitQuery ==
  /\ is_running = FALSE
  /\ socket = 0
  /\ openSocks = {}
  /\ nSock = 0
  /\ receive_thread = 0
  /\ th = [t \in Threads |-> NoThread]
  /\ data_lock = 0
  /\ latest_data = InitLatestData
  /\ \E len \in 0..MaxPoints : time_history \in [1..len -> QueryTimes]
  /\ \E short \in 0..1 :
       /\ short <= Len(time_history)
       /\ data_history = [key \in HistKeys |->
                            [i \in 1..(Len(time_history) - short) |-> HistValue(key, i)]]
       /\ waveform_data = [key \in WaveKeys |->
                             [i \in 1..(Len(time_history) - short) |->
                                WaveValue(CHOOSE j \in 1..Len(WaveKey) : WaveKey[j] = key, i)]]
  /\ now = 0
  /\ nRecv = 0
  /\ caller = [pc |-> "idle", ret |-> NoReturn]
  /\ rd = RdIdle
  /\ log = [s \in AllSeries |-> << >>]
  /\ okIds = {}
  /\ accepted = {}

\* the three windowed queries, in any order, on histories at rest
NextQuery ==
  \/ GetWaveformData
  \/ GetPowerData
  \/ GetParameterHistoryOf

SpecQuery == InitQuery /\ [][NextQuery]_vars

\* any sequence of start() calls that succeed and of stop() and reconnect()
\* calls, over running ingestion threads that are sent PARAM messages
NextReconnect ==
  \/ StartOk
  \/ Stop
  \/ Reconnect
  \/ \E t \in Threads : ReceiveLoop(t, LifeDatagrams)

SpecReconnect == Init /\ [][NextReconnect]_vars

\* datagrams delivered across a restart
RestartDatagrams == {DSampleA}

\* start() called while no ingestion thread of an earlier start() is alive
StartClean == StartOk /\ \A t \in Threads : ~IsAlive(t)

\* start(), ingestion of Samples while time passes, stop(), and start()
\* again once the thread has ended
NextRestart ==
  \/ StartClean
  \/ Stop
  \/ \E t \in Threads : ReceiveData(t, RestartDatagrams)
  \/ Tick

SpecRestart == Init /\ [][NextRestart]_vars

\* datagrams delivered while the windowed queries run
CopyDatagrams == {DSampleA, DSampleB}

\* one start(), then ingestion of Samples beside one reader that makes the
\* three windowed queries (the clock stands still)
NextCopy ==
  \/ StartOnce
  \/ \E t \in Threads : ReceiveData(t, CopyDatagrams)
  \/ GetWaveformDataCopies
  \/ GetPowerDataCopies
  \/ GetParameterHistoryCopies

SpecCopy == Init /\ [][NextCopy]_vars

\* ------------------------------------------------------------------- claims
\* the deque behind a series name
Series(s) ==
  IF s = "time" THEN time_history
  ELSE IF s \in HistKeys THEN data_history[s]
  ELSE waveform_data[s]

LastN(q, n) == SubSeq(q, Len(q) - Min2(n, Len(q)) + 1, Len(q))

Values(l) == [i \in 1..Len(l) |-> l[i].v]

\* latest_data holding exactly the decoded fields v
SnapshotOf(v) ==
  [key \in { FieldKey[i] : i \in 1..Len(FieldKey) } |->
     v[CHOOSE i \in 1..Len(FieldKey) : FieldKey[i] = key]]

\* no thread is inside _process_data
Quiescent ==
  \A t \in Threads : th[t].pc \notin {"process", "commit", "wave_read", "wave_append"}

\* thread t is executing the while loop of _receive_data
InLoop(t) ==
  th[t].pc \in {"loop", "recv", "process", "commit", "wave_read", "wave_append"}

AllNumeric(d) == \A i \in 1..Len(d.fields) : d.fields[i].kind = "num"

\* the outcome the three classification rules, taken in their order, give a
\* decoded datagram: the diagnostic of the first that applies, else "none"
RejectTag(d) ==
  IF Len(d.fields) > 0 /\ d.fields[1].kind = "param" THEN "param"
  ELSE IF Len(d.fields) - 1 < 5 THEN "reference"
  ELSE IF Len(d.fields) # 21 THEN "count"
  ELSE "none"

\* C1: in every state the length of time_history equals the length of every
\* data_history deque and of each of the six waveform phase deques.
C1_LengthsEqual == \A s \in AllSeries : Len(Series(s)) = Len(time_history)

\* C2: a call of _process_data on a datagram of exactly 21 fields of which at
\* least one is not numeric leaves time_history, every data_history deque,
\* every waveform deque and latest_data as they were.
C2_ParseFailureDropsRecord ==
  [][\A t \in Threads :
       ( /\ th[t].pc = "process"
         /\ th'[t].pc # "process"
         /\ th[t].data.utf8
         /\ Len(th[t].data.fields) = 21
         /\ ~AllNumeric(th[t].data) )
       => store' = store]_vars

\* C3: a call of _process_data on a datagram that begins with PARAM, or has
\* fewer than 5 commas, or has a field count other than 21, returns at once,
\* leaves time_history, every data_history deque, every waveform deque and
\* latest_data unchanged, and reports the first of the three rules that applies.
C3_RejectsLeaveStore ==
  [][\A t \in Threads :
       ( /\ th[t].pc = "process"
         /\ th'[t].pc # "process"
         /\ th[t].data.utf8
         /\ RejectTag(th[t].data) # "none" )
       => /\ store' = store
          /\ th'[t].pc = "loop"
          /\ th'[t].report = RejectTag(th[t].data)]_vars

\* C3 witness: a datagram was rejected by classification after a sample had
\* been committed, the histories being non-empty.
C3_Witness ==
  \E t \in Threads :
    /\ th[t].pc = "loop"
    /\ th[t].report \in {"param", "reference", "count"}
    /\ \A s \in AllSeries : Len(Series(s)) > 0

\* C4: whenever no datagram is being processed, every series has been appended
\* to exactly once per datagram of 21 numeric fields received so far, and
\* latest_data holds exactly the decoded fields of the most recent of them.
C4_CommitsMatchValid ==
  Quiescent =>
    /\ \A s \in AllSeries : Len(log[s]) = Cardinality(okIds)
    /\ okIds # {} =>
         \E v \in accepted :
           /\ latest_data = SnapshotOf(v)
           /\ \A j \in 1..Len(HistField) :
                log[FieldKey[HistField[j]]][Cardinality(okIds)].v = v[HistField[j]]

\* C5: when get_parameter_history returns and the newest timestamp of the time
\* sequence it read belongs to an accepted Sample, the value sequence it
\* returns holds that Sample's value.
C5_TimestampWithData ==
  (rd.op = "history" /\ rd.pc = "idle" /\ rd.nT \in okIds /\ H > 0) =>
    \E j \in 1..rd.nD : j > rd.nD - H /\ log[rd.p][j].id = rd.nT

\* C6: no series ever holds more than H elements; each holds the last
\* min(H, n) of the n values appended to it, in the order of their appends,
\* so exactly H once H or more were appended.
C6_Capacity ==
  \A s \in AllSeries :
    /\ Len(Series(s)) <= H
    /\ Len(log[s]) >= H => Len(Series(s)) = H
    /\ Series(s) = LastN(Values(log[s]), H)

\* C6 witness: H + 1 samples have been committed to every series.
C6_Witness == Quiescent /\ \A s \in AllSeries : Len(log[s]) >= H + 1

\* C7: every status code present in latest_data is within 0..3, all four are
\* present once a commit has completed, and a datagram of 21 numeric fields
\* is committed whatever its status fields decode to.
C7_StatusClamped ==
  /\ [](/\ \A i \in StatusFields :
             FieldKey[i] \in DOMAIN latest_data => latest_data[FieldKey[i]] \in 0..3
        /\ Len(log["EV_SoC"]) > 0 =>
             \A i \in StatusFields : FieldKey[i] \in DOMAIN latest_data)
  /\ [][\A t \in Threads :
          ( /\ th[t].pc = "process"
            /\ th'[t].pc # "process"
            /\ th[t].data.utf8
            /\ Len(th[t].data.fields) = 21
            /\ AllNumeric(th[t].data) )
          => th'[t].pc = "commit"]_vars

\* C7 witness: a Sample whose status fields decode to -1 and 7 has been
\* committed, and latest_data holds 0 and 3 for them.
C7_Witness ==
  \E t \in Threads :
    /\ th[t].pc = "wave_read"
    /\ IntOfFloat(th[t].data.fields[16].v) < 0
    /\ IntOfFloat(th[t].data.fields[17].v) > 3
    /\ latest_data["S1_Status"] = 0
    /\ latest_data["S2_Status"] = 3

\* C8: every value get_latest_data returns is the initial snapshot or the
\* complete decoded field set of one accepted Sample.
C8_SnapshotWhole ==
  rd.op = "latest" =>
    \/ rd.snapshot = InitLatestData
    \/ \E v \in accepted : rd.snapshot = SnapshotOf(v)

\* C8 witness: get_latest_data returned the fields of one Sample, and the
\* ingestion thread is now part-way through overwriting latest_data with a
\* different Sample.
C8_Witness ==
  /\ rd.op = "latest"
  /\ rd.snapshot # InitLatestData
  /\ \E t \in Threads :
       /\ th[t].pc = "commit"
       /\ th[t].k \in 2..NumSnapshotWrites
       /\ SnapshotOf(th[t].vals) # rd.snapshot
       /\ latest_data # rd.snapshot
       /\ latest_data # SnapshotOf(th[t].vals)

\* C9: at most one thread is executing the loop of _receive_data.
C9_SingleWriter == Cardinality({ t \in Threads : InLoop(t) }) <= 1

\* C10: whenever stop() has returned (and no later call has changed it),
\* is_running is false and self.socket is None.
C10_StopClears ==
  (caller.pc = "idle" /\ caller.ret.op = "stop") => (~is_running /\ socket = 0)

\* C10 witness: stop() returned after a join that timed out, the thread being
\* still alive, and a close() that raised.
C10_Witness ==
  /\ caller.pc = "idle"
  /\ caller.ret.op = "stop"
  /\ ~caller.ret.joined
  /\ caller.ret.raised

\* C11: once stop() has cleared is_running, and unless start() sets it again,
\* every ingestion thread that is alive eventually leaves the loop of
\* _receive_data and ends.
C11_StopTerminates ==
  \A t \in Threads : (~is_running /\ IsAlive(t)) ~> (is_running \/ ~IsAlive(t))

\* C11 witness: stop() is still waiting in join and the thread has left its
\* loop through the `while self.is_running` test.
C11_Witness ==
  /\ caller.pc = "stop_join"
  /\ ~is_running
  /\ \E t \in Threads : th[t].pc = "returned" /\ th[t].packet_count > 0

\* C12: the loop counts its transport errors from zero: after the n-th error
\* in a row, n being at most 5, its counter is n and no reconnect() was made,
\* and the error after that calls reconnect() and sets the counter to zero.
C12_ErrorsCounted ==
  \A t \in Threads :
    /\ th[t].errs \in 1..ReconnectAfter => th[t].error_count = th[t].errs
    /\ th[t].errs = ReconnectAfter + 1 => th[t].error_count = 0

\* C13: while is_running is set, a thread that met a transport error, the
\* very first included, is still executing the loop of _receive_data.
C13_ErrorNotFatal ==
  \A t \in Threads : (is_running /\ th[t].errs > 0) => InLoop(t)

\* the step of thread t is the return of recvfrom by socket.timeout
IsTimeoutStep(t) ==
  th[t].pc = "recv" /\ th'[t].pc = "loop" /\ th'[t].errs = th[t].errs

\* C14: the handshake is sent once when the loop starts, and again at every
\* receive timeout that finds more than 5 s passed since the last handshake
\* attempt and since the last datagram, whether or not datagrams were
\* received before; it is sent at no other step.
C14_ResendOnSilence ==
  [][ \A t \in Threads :
        th'[t].hellos = th[t].hellos +
          ( IF \/ th[t].pc = "start" /\ th'[t].pc = "loop"
               \/ /\ IsTimeoutStep(t)
                  /\ now - Max2(th[t].last_hello, th[t].last_data) > HelloSilence * Second
              THEN 1 ELSE 0 ) ]_vars

\* C16: the timestamp appended to time_history for a datagram is the time
\* that passed between the entry of _receive_data and the receipt of the
\* datagram, handshake resends or not.
C16_TimestampSinceLoopStart ==
  [][ \A t \in Threads :
        (th[t].pc = "process" /\ th'[t].pc # "process" /\ log'["time"] # log["time"])
          => log'["time"][Len(log'["time"])].v = th[t].last_data - th[t].loop_start ]_vars

\* C15: is_connected() returns true exactly when is_running is set and the
\* values of at least one Sample have been appended to every history.
C15_ConnectedIffCommitted ==
  is_connected <=> (is_running /\ \A s \in HistKeys : Len(log[s]) > 0)

\* a windowed query has returned
IsQuery == rd.pc = "idle" /\ rd.op \in {"parameter", "waveform", "power"}

\* the histories behind the value arrays the query returned, in their order
Requested ==
  IF rd.op = "parameter" THEN << data_history[rd.p] >>
  ELSE IF rd.op = "waveform" THEN [ph \in 1..Len(Phases) |-> WaveSeries(rd.p, ph)]
  ELSE [j \in 1..Len(PowerKeys) |-> data_history[PowerKeys[j]]]

\* two times equal up to the rounding to three decimals
Near(a, b) == a - b \in -5..5

\* latest minus earliest timestamp
Span == time_history[Len(time_history)] - time_history[1]

\* C17: a query with a time window, made on a history that is not empty and
\* holds fewer than two points or spans less than the window, returns every
\* point of the time sequence and of every requested series, in order.
C17_FallbackReturnsAll ==
  (IsQuery /\ rd.w # None /\ Len(time_history) > 0
     /\ (Len(time_history) < 2 \/ Span < rd.w)) =>
    /\ Len(rd.time) = Len(time_history)
    /\ \A i \in 1..Len(rd.time) : Near(rd.time[i], time_history[i])
    /\ rd.series = Requested

\* C18: a query with a time window, made on a history that spans at least
\* the window, returns exactly the points whose timestamp is at least the
\* latest timestamp minus the window, in their order, and the i-th value of
\* every returned series is the value stored at the position of the i-th
\* returned timestamp.
C18_WindowSelects ==
  (IsQuery /\ rd.w # None /\ Len(time_history) >= 2 /\ Span >= rd.w) =>
    LET kept == Where(time_history, time_history[Len(time_history)] - rd.w)
    IN /\ Len(rd.time) = Len(kept)
       /\ \A i \in 1..Len(kept) : Near(rd.time[i], time_history[kept[i]])
       /\ \A j \in 1..Len(Requested) :
            /\ Len(rd.series[j]) = Len(kept)
            /\ \A i \in 1..Len(kept) :
                 /\ kept[i] <= Len(Requested[j])
                 /\ rd.series[j][i] = Requested[j][kept[i]]

\* C19: a query with n_points >= 0 and no time window, made on a history
\* that is not empty, returns exactly the last min(n_points, available)
\* points of the time sequence and of every requested series.
C19_CountSelects ==
  (IsQuery /\ rd.w = None /\ rd.n # None /\ Len(time_history) > 0) =>
    /\ rd.time = LastN(time_history, rd.n)
    /\ \A j \in 1..Len(Requested) : rd.series[j] = LastN(Requested[j], rd.n)

\* C20: on an empty time_history, whatever n_points and time_window are,
\* get_parameter_history and get_waveform_data return empty arrays only and
\* get_power_data returns five arrays holding one zero each.
C20_EmptyHistory ==
  (IsQuery /\ Len(time_history) = 0) =>
    IF rd.op = "power"
      THEN rd.time = << 0 >> /\ rd.series = [j \in 1..Len(PowerKeys) |-> << 0 >>]
      ELSE /\ rd.time = << >>
           /\ Len(rd.series) = Len(Requested)
           /\ \A j \in 1..Len(rd.series) : rd.series[j] = << >>

\* C20 witness: get_power_data, given both n_points and time_window, has
\* returned on an empty time_history.
C20_Witness ==
  /\ IsQuery
  /\ rd.op = "power"
  /\ rd.n # None
  /\ rd.w # None
  /\ Len(time_history) = 0

\* C22: whenever start() has returned False (and no later call has changed
\* it), is_running is false, self.socket is None and there is no thread the
\* call created.
C22_StartFailureNotRunning ==
  (caller.pc = "idle" /\ caller.ret.op = "start" /\ ~caller.ret.val) =>
    /\ ~is_running
    /\ socket = 0
    /\ \A t \in Threads : th[t].pc # "unstarted"

\* C23: whenever reconnect() has returned False (and no later call has
\* changed it), self.socket is None.
C23_ReconnectFailureNoSocket ==
  (caller.pc = "idle" /\ caller.ret.op = "reconnect" /\ ~caller.ret.val) => socket = 0

\* the datagrams behind the appends l
Ids(l) == [i \in 1..Len(l) |-> l[i].id]

\* C24: whenever no datagram is being processed, position by position the
\* elements held by time_history and by every data history and waveform
\* deque were appended for the same datagram.
C24_IndexAligned ==
  Quiescent =>
    \A s \in HistKeys \cup WaveKeys :
      Ids(LastN(log[s], H)) = Ids(LastN(log["time"], H))

\* C26: time_history is non-decreasing.
C26_TimeNonDecreasing ==
  \A i \in 1..(Len(time_history) - 1) : time_history[i] <= time_history[i + 1]

\* the Sample a waveform value was computed from, whatever its phase
OfSample(v) == [amp |-> v.amp, f |-> v.f, pf |-> v.pf, t |-> v.t]

\* C21: whenever get_waveform_data has returned, beside a running ingestion
\* thread, its three phase sequences have one length and end with values of
\* one Sample.
C21_PhasesTogether ==
  (rd.pc = "idle" /\ rd.op = "waveform") =>
    \A j \in 2..Len(Phases) :
      /\ Len(rd.series[j]) = Len(rd.series[1])
      /\ Len(rd.series[1]) > 0 =>
           OfSample(rd.series[j][Len(rd.series[j])])
             = OfSample(rd.series[1][Len(rd.series[1])])

\* C25: whenever get_parameter_history or get_power_data has returned, beside
\* a running ingestion thread and whatever n_points and time_window were,
\* every value sequence it returned is as long as the time sequence.
C25_ReaderEqualLengths ==
  (rd.pc = "idle" /\ rd.op \in {"parameter", "power"}) =>
    \A j \in 1..Len(rd.series) : Len(rd.series[j]) = Len(rd.time)

====
